---- MODULE Spec2Model ----
(***************************************************************************)
(* A model of the binary marshalling core of dbase-rs: the 32-byte header  *)
(* codec (src/src/header.rs) and the Date / FieldValue codecs              *)
(* (src/src/record/field.rs).                                              *)
(*                                                                         *)
(* A byte is a number in 0..255.  A Rust String is modelled by its UTF-8   *)
(* byte sequence, so that slicing by byte index and char boundaries behave *)
(* as they do in the program.  A call ends in one of the outcomes          *)
(*   "Ok", "IoError", "InvalidDate", "ParseIntError", "ParseFloatError"    *)
(* (the Err variants returned to the caller) or "panic" (the thread        *)
(* unwinds: panic!, slice index out of range, slice not on a char          *)
(* boundary).                                                              *)
(*                                                                         *)
(* The source is a byte stream with a read position (std::io::Read); the   *)
(* destination is a growable in-memory buffer (Cursor<Vec<u8>>, as in      *)
(* header.rs:195), whose writes do not fail.                               *)
(***************************************************************************)
EXTENDS Integers, Sequences, FiniteSets, TLC

VARIABLES
    source,     \* the bytes of the Read stream
    pos,        \* how many bytes of source have been consumed
    dest,       \* the bytes emitted to the Write stream so far
    value,      \* the value the caller holds (a Header, Date, Version, FieldValue)
    outcome,    \* how the last call ended
    call,       \* the last call: its name, its argument, pos and Len(dest) before it
    origin,     \* where the bytes of source come from
    widthSum    \* the widths of the fields decoded from source so far, summed

vars == <<source, pos, dest, value, outcome, call, origin, widthSum>>

----------------------------------------------------------------------------
(* Bounds of the model *)

\* Date::from_bytes is exercised on every year byte and on month and day
\* bytes up to these
MaxMonthByte == 14
MaxDayByte == 34
\* a write is issued only while the destination holds fewer bytes than this
MaxDestLen == 4
\* record sources hold every text of '1' and ' ' up to this length
MaxSrcLen == 6
\* the record_length of a field descriptor goes up to this
MaxRecLen == 8

----------------------------------------------------------------------------
(* Bytes and integers *)

Byte == 0..255

\* `x as u8`
AsU8(x) == x % 256

\* the ASCII text of n in exactly w decimal digits
RECURSIVE DecText(_, _)
DecText(n, w) == IF w = 0 THEN <<>> ELSE Append(DecText(n \div 10, w - 1), 48 + (n % 10))

NoValue == [kind |-> "None"]
NoCall == [op |-> "none"]

----------------------------------------------------------------------------
(* header.rs: Version *)

FoxBase == [tag |-> "FoxBase"]
DBase3(m) == [tag |-> "DBase3", has_memo |-> m]
Unknown == [tag |-> "Unknown"]

\* impl From<u8> for Version
Version_from_u8(b) ==
    CASE b = 2 -> FoxBase
      [] b = 3 -> DBase3(FALSE)
      [] b = 131 -> DBase3(TRUE)
      [] OTHER -> Unknown

\* impl From<Version> for u8
u8_from_Version(v) ==
    CASE v = FoxBase -> [outcome |-> "Ok", byte |-> 2]
      [] v = DBase3(FALSE) -> [outcome |-> "Ok", byte |-> 3]
      [] v = DBase3(TRUE) -> [outcome |-> "Ok", byte |-> 131]
      [] OTHER -> [outcome |-> "panic"]

\* Version::has_memo
Version_has_memo(v) ==
    CASE v = FoxBase -> [outcome |-> "Ok", val |-> FALSE]
      [] v.tag = "DBase3" -> [outcome |-> "Ok", val |-> v.has_memo]
      [] OTHER -> [outcome |-> "panic"]

----------------------------------------------------------------------------
(* record/field.rs: Date *)

Date(y, m, d) == [year |-> y, month |-> m, day |-> d]

\* Date::from_bytes
Date_from_bytes(bytes) ==
    Date(1900 + bytes[1], bytes[2], bytes[3])

\* a validation that takes the upper limits as exclusive
Date_validate_exclusive(d) ==
    IF d.month >= 12 \/ d.day >= 31 \/ d.year < 1900 \/ d.year >= 2155
    THEN "InvalidDate"
    ELSE "Ok"

\* Date::validate
Date_validate(d) ==
    IF d.month > 12 \/ d.day > 31 \/ d.year < 1900 \/ d.year > 2155
    THEN "InvalidDate"
    ELSE "Ok"

\* a write_to that emits the year byte before it validates
Date_write_to_late_validate(d) ==
    IF Date_validate(d) # "Ok"
    THEN [outcome |-> Date_validate(d), bytes |-> <<AsU8(d.year - 1900)>>]
    ELSE [outcome |-> "Ok",
          bytes |-> <<AsU8(d.year - 1900), AsU8(d.month), AsU8(d.day)>>]

\* Date::write_to: the outcome and the bytes it emits
Date_write_to(d) ==
    IF Date_validate(d) # "Ok"
    THEN [outcome |-> Date_validate(d), bytes |-> <<>>]
    ELSE [outcome |-> "Ok",
          bytes |-> <<AsU8(d.year - 1900), AsU8(d.month), AsU8(d.day)>>]

\* str::is_char_boundary on the UTF-8 bytes of a string
is_char_boundary(s, i) ==
    \/ i = 0
    \/ i = Len(s)
    \/ i < Len(s) /\ ~(s[i + 1] \in 128..191)

\* &s[a..b]: a panic unless a <= b <= len and both are char boundaries
StrSlice(s, a, b) ==
    IF a <= b /\ b <= Len(s) /\ is_char_boundary(s, a) /\ is_char_boundary(s, b)
    THEN [outcome |-> "Ok", str |-> SubSeq(s, a + 1, b)]
    ELSE [outcome |-> "panic"]

IsDigit(c) == c \in 48..57

RECURSIVE DigitsValue(_)
DigitsValue(ds) ==
    IF ds = <<>> THEN 0
    ELSE 10 * DigitsValue(SubSeq(ds, 1, Len(ds) - 1)) + (ds[Len(ds)] - 48)

\* str::parse::<u32>: an optional '+', then one or more decimal digits.  The
\* slices Date::from_str parses are 4 and 2 bytes wide, so the value never
\* exceeds u32::MAX and the overflow error of parse cannot arise.
parse_u32(s) ==
    LET digits == IF s # <<>> /\ s[1] = 43 THEN Tail(s) ELSE s
    IN  IF digits = <<>> \/ \E i \in 1..Len(digits) : ~IsDigit(digits[i])
        THEN [outcome |-> "ParseIntError"]
        ELSE [outcome |-> "Ok", val |-> DigitsValue(digits)]

\* impl FromStr for Date: each slice is taken and parsed before the next one
Date_from_str(s) ==
    LET ys == StrSlice(s, 0, 4)
        y  == parse_u32(ys.str)
        ms == StrSlice(s, 4, 6)
        m  == parse_u32(ms.str)
        ds == StrSlice(s, 6, 8)
        d  == parse_u32(ds.str)
    IN  CASE ys.outcome # "Ok" -> [outcome |-> "panic"]
          [] y.outcome # "Ok" -> [outcome |-> "ParseIntError"]
          [] ms.outcome # "Ok" -> [outcome |-> "panic"]
          [] m.outcome # "Ok" -> [outcome |-> "ParseIntError"]
          [] ds.outcome # "Ok" -> [outcome |-> "panic"]
          [] d.outcome # "Ok" -> [outcome |-> "ParseIntError"]
          [] OTHER -> [outcome |-> "Ok", date |-> Date(y.val, m.val, d.val)]

----------------------------------------------------------------------------
(* header.rs: Header *)

\* A u32 is kept as its two 16-bit halves: TLC's integers end at 2^31 - 1.
U32(hi, lo) == [hi |-> hi, lo |-> lo]

\* a 16-bit read that takes the bytes in big-endian order
read_u16_be(b) == b[2] + 256 * b[1]

\* ReadBytesExt::read_u16::<LittleEndian> / read_u32::<LittleEndian>
read_u16_le(b) == b[1] + 256 * b[2]
read_u32_le(b) == U32(b[3] + 256 * b[4], b[1] + 256 * b[2])

\* a 16-bit write that emits the bytes in big-endian order
write_u16_be(n) == <<n \div 256, n % 256>>

\* WriteBytesExt::write_u16::<LittleEndian> / write_u32::<LittleEndian>
write_u16_le(n) == <<n % 256, n \div 256>>
write_u32_le(n) == write_u16_le(n.lo) \o write_u16_le(n.hi)

\* a reserved region one byte short
ZerosShort(n) == [i \in 1..(n - 1) |-> 0]

\* [0u8; n]
Zeros(n) == [i \in 1..n |-> 0]

\* Header::SIZE
SIZE == 32

\* the widths of the consecutive reads of Header::read_from
HeaderLayout == <<1, 3, 4, 2, 2, 2, 1, 1, 12, 1, 1, 1, 1>>

RECURSIVE SumTo(_, _)
SumTo(widths, k) == IF k = 0 THEN 0 ELSE SumTo(widths, k - 1) + widths[k]

\* Reading `widths` one after the other with `avail` bytes left: how many
\* bytes the reads that succeed consume before one finds the stream short
ConsumedBeforeFailure(widths, avail) ==
    LET fit == {k \in 0..Len(widths) : SumTo(widths, k) <= avail}
        last == CHOOSE k \in fit : \A j \in fit : j <= k
    IN  SumTo(widths, last)

\* Header::new
Header_new(num_records, offset, size_of_records) ==
    [file_type |-> DBase3(FALSE),
     last_update |-> Date(1990, 12, 25),
     num_records |-> num_records,
     offset_to_first_record |-> offset,
     size_of_record |-> size_of_records,
     is_transaction_incomplete |-> FALSE,
     encryption_flag |-> 0,
     table_flags |-> 0,
     code_page_mark |-> 0]

\* Header::read_from on the 32 bytes b the source supplies
Header_decode(b) ==
    [file_type |-> Version_from_u8(b[1]),
     last_update |-> Date_from_bytes(SubSeq(b, 2, 4)),
     num_records |-> read_u32_le(SubSeq(b, 5, 8)),
     offset_to_first_record |-> read_u16_le(SubSeq(b, 9, 10)),
     size_of_record |-> read_u16_le(SubSeq(b, 11, 12)),
     is_transaction_incomplete |-> (b[15] # 0),
     encryption_flag |-> b[16],
     table_flags |-> b[29],
     code_page_mark |-> b[30]]

\* Header::read_from at position p of src: the header and the new position,
\* or an I/O error when a read finds the stream short
Header_read_from(src, p) ==
    IF Len(src) - p >= SumTo(HeaderLayout, Len(HeaderLayout))
    THEN [outcome |-> "Ok",
          header |-> Header_decode(SubSeq(src, p + 1, p + SumTo(HeaderLayout, Len(HeaderLayout)))),
          pos |-> p + SumTo(HeaderLayout, Len(HeaderLayout))]
    ELSE [outcome |-> "IoError",
          pos |-> p + ConsumedBeforeFailure(HeaderLayout, Len(src) - p)]

\* Header::write_to: the outcome and the bytes emitted before it returns
Header_write_to(h) ==
    LET v == u8_from_Version(h.file_type)
        d == Date_write_to(h.last_update)
    IN  CASE v.outcome # "Ok" -> [outcome |-> v.outcome, bytes |-> <<>>]
          [] d.outcome # "Ok" -> [outcome |-> d.outcome, bytes |-> <<v.byte>> \o d.bytes]
          [] OTHER ->
               [outcome |-> "Ok",
                bytes |-> <<v.byte>> \o d.bytes
                          \o write_u32_le(h.num_records)
                          \o write_u16_le(h.offset_to_first_record)
                          \o write_u16_le(h.size_of_record)
                          \o write_u16_le(0)
                          \o <<IF h.is_transaction_incomplete THEN 1 ELSE 0>>
                          \o <<h.encryption_flag>>
                          \o Zeros(12)
                          \o <<h.table_flags, h.code_page_mark, 0, 0>>]

\* TableFlags
has_structural_cdx(f) == (f % 2) = 1
has_memo_field(f) == ((f \div 2) % 2) = 1
is_a_database(f) == (f % 4) = 1

----------------------------------------------------------------------------
(* record/field.rs: FieldType, FieldValue *)

FieldTypes ==
    {"Character", "Currency", "Numeric", "Float", "Date", "DateTime", "Double",
     "Integer", "Logical", "Memo", "General", "BinaryCharacter", "BinaryMemo",
     "Picture", "Varbinary", "BinaryVarchar"}

\* FieldType::from, on the ASCII code of the character
FieldType_from(c) ==
    CASE c = 67 -> "Character"
      [] c = 89 -> "Currency"
      [] c = 78 -> "Numeric"
      [] c = 70 -> "Float"
      [] c = 68 -> "Date"
      [] c = 84 -> "DateTime"
      [] c = 66 -> "Double"
      [] c = 73 -> "Integer"
      [] c = 76 -> "Logical"
      [] c = 77 -> "Memo"
      [] c = 71 -> "General"
      [] OTHER -> "None"

\* RecordFieldInfo, as far as FieldValue::read_from uses it
FieldInfo(t, len) == [field_type |-> t, record_length |-> len]

\* U+FFFD REPLACEMENT CHARACTER in UTF-8
Replacement == <<239, 191, 189>>

\* how many bytes the UTF-8 sequence a lead byte starts has; 0 when the byte
\* starts none
Utf8Width(c) ==
    CASE c < 128 -> 1
      [] c \in 194..223 -> 2
      [] c \in 224..239 -> 3
      [] c \in 240..244 -> 4
      [] OTHER -> 0

\* the values the second byte of a sequence may take after lead byte c
Utf8Second(c) ==
    CASE c = 224 -> 160..191
      [] c = 237 -> 128..159
      [] c = 240 -> 144..191
      [] c = 244 -> 128..143
      [] OTHER -> 128..191

\* String::from_utf8_lossy: valid sequences are kept, every maximal invalid
\* part becomes one U+FFFD
RECURSIVE from_utf8_lossy(_)
from_utf8_lossy(b) ==
    IF b = <<>> THEN <<>>
    ELSE LET n == Utf8Width(b[1])
             good(k) == /\ k <= Len(b)
                        /\ b[k] \in (IF k = 2 THEN Utf8Second(b[1]) ELSE 128..191)
             fits == {j \in 1..n : \A k \in 2..j : good(k)}
             matched == CHOOSE j \in fits : \A i \in fits : i <= j
         IN  IF n = 0
             THEN Replacement \o from_utf8_lossy(Tail(b))
             ELSE IF matched = n
             THEN SubSeq(b, 1, n) \o from_utf8_lossy(SubSeq(b, n + 1, Len(b)))
             ELSE Replacement \o from_utf8_lossy(SubSeq(b, matched + 1, Len(b)))

\* the characters with the White_Space property, in UTF-8
WhiteSpace ==
    {<<c>> : c \in (9..13) \cup {32}}
        \cup {<<194, 133>>, <<194, 160>>, <<225, 154, 128>>}
        \cup {<<226, 128, c>> : c \in (128..138) \cup {168, 169, 175}}
        \cup {<<226, 129, 159>>, <<227, 128, 128>>}

StartsWith(s, w) == Len(w) <= Len(s) /\ SubSeq(s, 1, Len(w)) = w
EndsWith(s, w) == Len(w) <= Len(s) /\ SubSeq(s, Len(s) - Len(w) + 1, Len(s)) = w

RECURSIVE trim_start(_)
trim_start(s) ==
    IF \E w \in WhiteSpace : StartsWith(s, w)
    THEN LET w == CHOOSE w \in WhiteSpace : StartsWith(s, w)
         IN  trim_start(SubSeq(s, Len(w) + 1, Len(s)))
    ELSE s

RECURSIVE trim_end(_)
trim_end(s) ==
    IF \E w \in WhiteSpace : EndsWith(s, w)
    THEN LET w == CHOOSE w \in WhiteSpace : EndsWith(s, w)
         IN  trim_end(SubSeq(s, 1, Len(s) - Len(w)))
    ELSE s

\* str::trim
trim(s) == trim_end(trim_start(s))

\* how many leading bytes of s are decimal digits
RECURSIVE DigitRun(_)
DigitRun(s) ==
    IF s # <<>> /\ IsDigit(s[1]) THEN 1 + DigitRun(Tail(s)) ELSE 0

Drop(s, n) == SubSeq(s, n + 1, Len(s))

\* str::parse::<f64>: an optional sign, then "inf", "infinity" or "NaN", or
\* digits with an optional point and an optional exponent, with a digit
\* before or after the point.  The f64 itself is not computed: the value is
\* kept as the text that denotes it.
parse_f64(s) ==
    LET signed == s # <<>> /\ s[1] \in {43, 45}
        body == IF signed THEN Tail(s) ELSE s
        int == DigitRun(body)
        afterInt == Drop(body, int)
        point == afterInt # <<>> /\ afterInt[1] = 46
        frac == IF point THEN DigitRun(Tail(afterInt)) ELSE 0
        afterFrac == IF point THEN Drop(afterInt, 1 + frac) ELSE afterInt
        hasExp == afterFrac # <<>> /\ afterFrac[1] \in {101, 69}
        expBody == IF hasExp THEN Tail(afterFrac) ELSE <<>>
        expDigits == IF expBody # <<>> /\ expBody[1] \in {43, 45}
                     THEN Tail(expBody) ELSE expBody
        named == body \in {<<105, 110, 102>>, <<78, 97, 78>>,
                           <<105, 110, 102, 105, 110, 105, 116, 121>>}
        number == /\ int + frac > 0
                  /\ IF hasExp
                     THEN expDigits # <<>> /\ DigitRun(expDigits) = Len(expDigits)
                     ELSE afterFrac = <<>>
    IN  IF named \/ number
        THEN [outcome |-> "Ok", val |-> s]
        ELSE [outcome |-> "ParseFloatError"]

\* ReadBytesExt::read_i32::<LittleEndian>: two's complement
read_i32_le(b) ==
    LET lo == b[1] + 256 * b[2]
        hi == b[3] + 256 * b[4]
    IN  (IF hi >= 32768 THEN hi - 65536 ELSE hi) * 65536 + lo

\* a Logical decode that knows the upper-case letters only
LogicalFromByteUpper(b) == b \in {49, 84, 89}

\* the match of the Logical branch: '1' | 'T' | 't' | 'Y' | 'y'
LogicalFromByte(b) == b \in {49, 84, 116, 89, 121}

\* Read::read_exact of n bytes at position p of src
read_exact(src, p, n) ==
    IF p + n <= Len(src)
    THEN [outcome |-> "Ok", bytes |-> SubSeq(src, p + 1, p + n), pos |-> p + n]
    ELSE [outcome |-> "IoError", pos |-> p]

\* a read_string_of_len that reads a terminating byte as well
read_string_of_len_terminated(src, p, len) ==
    LET r == read_exact(src, p, len + 1)
    IN  IF r.outcome = "Ok"
        THEN [outcome |-> "Ok", str |-> from_utf8_lossy(r.bytes), pos |-> r.pos]
        ELSE r

\* read_string_of_len
read_string_of_len(src, p, len) ==
    LET r == read_exact(src, p, len)
    IN  IF r.outcome = "Ok"
        THEN [outcome |-> "Ok", str |-> from_utf8_lossy(r.bytes), pos |-> r.pos]
        ELSE r

\* FieldValue::read_from at position p of src: the outcome, the value and the
\* position the source is left at (on an I/O error: the position before the
\* read that failed)
FieldValue_read_from(src, p, field_info) ==
    LET t == field_info.field_type
        fixed == read_exact(src, p, CASE t = "Logical" -> 1
                                      [] t = "Double" -> 8
                                      [] OTHER -> 4)
        text == read_string_of_len(src, p, field_info.record_length)
    IN  CASE t = "Logical" ->
               IF fixed.outcome # "Ok" THEN fixed
               ELSE [outcome |-> "Ok", pos |-> fixed.pos,
                     value |-> [variant |-> "Logical",
                                val |-> LogicalFromByte(fixed.bytes[1])]]
          [] t = "Integer" ->
               IF fixed.outcome # "Ok" THEN fixed
               ELSE [outcome |-> "Ok", pos |-> fixed.pos,
                     value |-> [variant |-> "Integer", val |-> read_i32_le(fixed.bytes)]]
          [] t = "Character" ->
               IF text.outcome # "Ok" THEN text
               ELSE [outcome |-> "Ok", pos |-> text.pos,
                     value |-> [variant |-> "Character", val |-> trim(text.str)]]
          [] t = "Numeric" ->
               IF text.outcome # "Ok" THEN text
               ELSE IF parse_f64(trim(text.str)).outcome # "Ok"
               THEN [outcome |-> parse_f64(trim(text.str)).outcome, pos |-> text.pos]
               ELSE [outcome |-> "Ok", pos |-> text.pos,
                     value |-> [variant |-> "Numeric",
                                val |-> parse_f64(trim(text.str)).val]]
          [] t \in {"Float", "Double"} ->
               IF fixed.outcome # "Ok" THEN fixed
               ELSE [outcome |-> "Ok", pos |-> fixed.pos,
                     value |-> [variant |-> t, bits |-> fixed.bytes]]
          [] t = "Date" ->
               IF text.outcome # "Ok" THEN text
               ELSE IF Date_from_str(text.str).outcome # "Ok"
               THEN [outcome |-> Date_from_str(text.str).outcome, pos |-> text.pos]
               ELSE [outcome |-> "Ok", pos |-> text.pos,
                     value |-> [variant |-> "Date", val |-> Date_from_str(text.str).date]]
          [] OTHER -> [outcome |-> "panic", pos |-> p]

----------------------------------------------------------------------------
(* The state after construction: nothing read, nothing written *)

Init ==
    /\ source = <<>>
    /\ pos = 0
    /\ dest = <<>>
    /\ value = NoValue
    /\ outcome = "none"
    /\ call = NoCall
    /\ origin = NoValue
    /\ widthSum = 0

\* the bytes the last call emitted
Emitted == SubSeq(dest, call.dest0 + 1, Len(dest))

----------------------------------------------------------------------------
(* Version: decoding a file-type byte and encoding it again *)

VersionFrom ==
    /\ call = NoCall
    /\ \E b \in Byte :
          /\ value' = [kind |-> "Version", v |-> Version_from_u8(b)]
          /\ call' = [op |-> "Version::from", arg |-> b, pos0 |-> pos,
                      dest0 |-> Len(dest)]
    /\ outcome' = "Ok"
    /\ UNCHANGED <<source, pos, dest, origin, widthSum>>

U8From ==
    /\ value.kind = "Version"
    /\ call.op = "Version::from"
    /\ outcome' = u8_from_Version(value.v).outcome
    /\ dest' = IF u8_from_Version(value.v).outcome = "Ok"
               THEN Append(dest, u8_from_Version(value.v).byte)
               ELSE dest
    /\ call' = [op |-> "u8::from", arg |-> value.v, pos0 |-> pos, dest0 |-> Len(dest)]
    /\ UNCHANGED <<source, pos, value, origin, widthSum>>

HasMemo ==
    /\ value.kind = "Version"
    /\ call.op = "Version::from"
    /\ outcome' = Version_has_memo(value.v).outcome
    /\ call' = [op |-> "Version::has_memo", arg |-> value.v, pos0 |-> pos,
                dest0 |-> Len(dest)]
    /\ UNCHANGED <<source, pos, dest, value, origin, widthSum>>

NextVersion ==
    \/ VersionFrom
    \/ U8From
    \/ HasMemo

SpecVersion == Init /\ [][NextVersion]_vars

----------------------------------------------------------------------------
(* Date: building a date from bytes or from text, and writing it *)

\* the texts Date::from_str is given: four, two and two decimal digits
DateTexts ==
    { DecText(y, 4) \o DecText(m, 2) \o DecText(d, 2) :
        y \in {1899, 1900, 1990, 2155, 2156, 9999},
        m \in {0, 1, 12, 13, 99},
        d \in {0, 1, 31, 32, 99} }

DateFromBytes ==
    /\ call = NoCall
    /\ \E b0 \in Byte, b1 \in 0..MaxMonthByte, b2 \in 0..MaxDayByte :
          /\ value' = [kind |-> "Date", d |-> Date_from_bytes(<<b0, b1, b2>>)]
          /\ call' = [op |-> "Date::from_bytes", arg |-> <<b0, b1, b2>>,
                      pos0 |-> pos, dest0 |-> Len(dest)]
    /\ outcome' = "Ok"
    /\ UNCHANGED <<source, pos, dest, origin, widthSum>>

DateFromStr ==
    /\ call = NoCall
    /\ \E s \in DateTexts :
          /\ outcome' = Date_from_str(s).outcome
          /\ value' = IF Date_from_str(s).outcome = "Ok"
                      THEN [kind |-> "Date", d |-> Date_from_str(s).date]
                      ELSE value
          /\ call' = [op |-> "Date::from_str", arg |-> s, pos0 |-> pos,
                      dest0 |-> Len(dest)]
    /\ UNCHANGED <<source, pos, dest, origin, widthSum>>

DateWriteTo ==
    /\ value.kind = "Date"
    /\ outcome # "panic"
    /\ Len(dest) < MaxDestLen
    /\ outcome' = Date_write_to(value.d).outcome
    /\ dest' = dest \o Date_write_to(value.d).bytes
    /\ call' = [op |-> "Date::write_to", arg |-> value.d, pos0 |-> pos,
                dest0 |-> Len(dest)]
    /\ UNCHANGED <<source, pos, value, origin, widthSum>>

NextDate ==
    \/ DateFromBytes
    \/ DateFromStr
    \/ DateWriteTo

SpecDate == Init /\ [][NextDate]_vars

----------------------------------------------------------------------------
(* Header: reading a header from a source, writing one, reading it back *)

\* 32-byte header blocks, field by field; every reserved byte of a block
\* holds `fill`
HeaderBlock(ver, date, nrec, off, size, txn, enc, flags, cpm, fill) ==
    <<ver>> \o date \o nrec \o off \o size \o <<fill, fill>> \o <<txn, enc>>
        \o [i \in 1..12 |-> fill] \o <<flags, cpm, fill, fill>>

HeaderBlocks ==
    { HeaderBlock(ver, date, nrec, off, size, txn, enc, flags, cpm, fill) :
        ver \in {2, 3, 131, 48, 255},
        date \in {<<0, 0, 0>>, <<90, 12, 25>>, <<255, 12, 31>>, <<118, 13, 1>>,
                  <<118, 1, 32>>},
        nrec \in {<<0, 0, 0, 0>>, <<4, 3, 2, 1>>, <<255, 255, 255, 255>>},
        off \in {<<2, 1>>, <<255, 255>>},
        size \in {<<1, 0>>, <<0, 128>>},
        txn \in {0, 1, 2},
        enc \in {0, 1},
        flags \in {0, 3},
        cpm \in {0, 87},
        fill \in {0, 7} }

SampleBlock == HeaderBlock(3, <<90, 12, 25>>, <<4, 3, 2, 1>>, <<2, 1>>, <<1, 0>>,
                           1, 0, 3, 87, 0)

\* sources that end before the header does, and one that goes on after it
ShortSources == { SubSeq(SampleBlock, 1, n) : n \in {0, 1, 3, 4, 9, 16, 31} }

HeaderSources == HeaderBlocks \cup ShortSources \cup {SampleBlock \o <<67, 0>>}

Open ==
    /\ call = NoCall
    /\ origin = NoValue
    /\ \E b \in HeaderSources : source' = b
    /\ pos' = 0
    /\ origin' = [kind |-> "file"]
    /\ UNCHANGED <<dest, value, outcome, call, widthSum>>

HeaderNew ==
    /\ call = NoCall
    /\ origin = NoValue
    /\ \E n \in {U32(0, 0), U32(1, 2), U32(65535, 65535)},
          o \in {0, 33, 65535}, sz \in {0, 1, 65535} :
          /\ value' = [kind |-> "Header", h |-> Header_new(n, o, sz)]
          /\ call' = [op |-> "Header::new", arg |-> <<n, o, sz>>, pos0 |-> pos,
                      dest0 |-> Len(dest)]
    /\ outcome' = "Ok"
    /\ UNCHANGED <<source, pos, dest, origin, widthSum>>

\* A read that finds the stream short may have consumed any part of what
\* was left of it: std::io::Read::read_exact leaves that unspecified.
HeaderReadFrom ==
    /\ origin # NoValue
    /\ outcome # "panic"
    /\ LET r == Header_read_from(source, pos)
       IN  /\ outcome' = r.outcome
           /\ IF r.outcome = "Ok"
              THEN /\ value' = [kind |-> "Header", h |-> r.header]
                   /\ pos' = r.pos
              ELSE /\ value' = value
                   /\ pos' \in r.pos..Len(source)
    /\ call' = [op |-> "Header::read_from", arg |-> NoValue, pos0 |-> pos,
                dest0 |-> Len(dest)]
    /\ UNCHANGED <<source, dest, origin, widthSum>>

HeaderWriteTo ==
    /\ value.kind = "Header"
    /\ outcome # "panic"
    /\ Len(dest) < MaxDestLen
    /\ outcome' = Header_write_to(value.h).outcome
    /\ dest' = dest \o Header_write_to(value.h).bytes
    /\ call' = [op |-> "Header::write_to", arg |-> value.h, pos0 |-> pos,
                dest0 |-> Len(dest)]
    /\ UNCHANGED <<source, pos, value, origin, widthSum>>

\* The bytes a successful write_to emitted become the source of the next read
Reopen ==
    /\ call.op = "Header::write_to"
    /\ outcome = "Ok"
    /\ source' = Emitted
    /\ pos' = 0
    /\ dest' = <<>>
    /\ origin' = [kind |-> "written", hdr |-> call.arg]
    /\ outcome' = "none"
    /\ call' = [op |-> "reopen"]
    /\ UNCHANGED <<value, widthSum>>

NextHeader ==
    \/ Open
    \/ HeaderNew
    \/ HeaderReadFrom
    \/ HeaderWriteTo
    \/ Reopen

SpecHeader == Init /\ [][NextHeader]_vars

----------------------------------------------------------------------------
(* Field: decoding the fields of a record one after the other *)

SeqsUpTo(A, n) == UNION {[1..k -> A] : k \in 0..n}

\* texts chosen for what they make of a Date, Numeric or Character field:
\* "20190131", "+2010101", "2019+1+1", "201901 1", "        ", "20x90131",
\* "2019", "201901", "2019\u{e9}0131" (e9 as c3 a9), "2019" ff "131",
\* ff "1190131", "19991231x", " 12.50", "1.", ".", "-1e5", "abc   "
TextSamples ==
    {<<50, 48, 49, 57, 48, 49, 51, 49>>,
     <<43, 50, 48, 49, 48, 49, 48, 49>>,
     <<50, 48, 49, 57, 43, 49, 43, 49>>,
     <<50, 48, 49, 57, 48, 49, 32, 49>>,
     <<32, 32, 32, 32, 32, 32, 32, 32>>,
     <<50, 48, 120, 57, 48, 49, 51, 49>>,
     <<50, 48, 49, 57>>,
     <<50, 48, 49, 57, 48, 49>>,
     <<50, 48, 49, 57, 195, 169, 48, 49, 51, 49>>,
     <<50, 48, 49, 57, 255, 49, 51, 49>>,
     <<255, 49, 49, 57, 48, 49, 51, 49>>,
     <<49, 57, 57, 57, 49, 50, 51, 49, 120>>,
     <<32, 49, 50, 46, 53, 48>>,
     <<49, 46>>,
     <<46>>,
     <<45, 49, 101, 53>>,
     <<97, 98, 99, 32, 32, 32>>}

\* binary samples: an i32 of -2; an f64 and a Logical 'Y'; a Logical 'Y' and a
\* date; an i32 of 1, an f64, a Logical 'T' and the text " 1"
BinarySamples ==
    {<<254, 255, 255, 255>>,
     <<0, 0, 0, 0, 0, 0, 240, 63, 89>>,
     <<89, 50, 48, 49, 57, 48, 49, 51, 49>>,
     <<1, 0, 0, 0, 0, 0, 0, 0, 0, 0, 240, 63, 84, 32, 49>>}

RecordSources ==
    {<<b>> : b \in Byte} \cup SeqsUpTo({49, 32}, MaxSrcLen)
        \cup TextSamples \cup BinarySamples

TextKinds == {"Character", "Numeric", "Date"}

\* the descriptors a field table may hold
FieldInfos ==
    {FieldInfo(t, len) : t \in TextKinds, len \in 0..MaxRecLen}
        \cup {FieldInfo(t, len) : t \in FieldTypes \ TextKinds, len \in {0, MaxRecLen}}

\* the stored width of a field: fixed for the binary kinds, record_length
\* for the kinds stored as text
Width(field_info) ==
    CASE field_info.field_type = "Logical" -> 1
      [] field_info.field_type \in {"Integer", "Float"} -> 4
      [] field_info.field_type = "Double" -> 8
      [] OTHER -> field_info.record_length

OpenRecord ==
    /\ call = NoCall
    /\ origin = NoValue
    /\ \E b \in RecordSources : source' = b
    /\ pos' = 0
    /\ origin' = [kind |-> "record"]
    /\ UNCHANGED <<dest, value, outcome, call, widthSum>>

\* The caller decodes the next field while every decode so far succeeded.
\* A read that finds the stream short may have consumed any part of what was
\* left of it.
FieldValueReadFrom ==
    /\ origin = [kind |-> "record"]
    /\ outcome \in {"none", "Ok"}
    /\ \E field_info \in FieldInfos :
          LET r == FieldValue_read_from(source, pos, field_info)
          IN  /\ outcome' = r.outcome
              /\ value' = IF r.outcome = "Ok"
                          THEN [kind |-> "FieldValue", fv |-> r.value]
                          ELSE NoValue
              /\ IF r.outcome = "IoError"
                 THEN pos' \in r.pos..Len(source)
                 ELSE pos' = r.pos
              /\ widthSum' = IF r.outcome = "Ok"
                             THEN widthSum + Width(field_info)
                             ELSE widthSum
              /\ call' = [op |-> "FieldValue::read_from", arg |-> field_info,
                          pos0 |-> pos, dest0 |-> Len(dest)]
    /\ UNCHANGED <<source, dest, origin>>

NextField ==
    \/ OpenRecord
    \/ FieldValueReadFrom

SpecField == Init /\ [][NextField]_vars

----------------------------------------------------------------------------
(* Claims about the header codec, checked under SpecHeader *)

\* the 32 bytes at the start of the source
Block == SubSeq(source, 1, SIZE)

\* the byte positions (from 1) of the reserved regions of a header block
ReservedBytes == {13, 14} \cup (17..28) \cup {31, 32}

\* a block with its reserved bytes zeroed and its transaction byte made 0 or 1
Normalised(b) ==
    [i \in 1..SIZE |->
        IF i \in ReservedBytes THEN 0
        ELSE IF i = 15 THEN (IF b[15] # 0 THEN 1 ELSE 0)
        ELSE b[i]]

\* C1: a header that write_to has written (those are the valid headers) is
\* read back by read_from from the bytes written, equal to the one written
\* in every field.
C1_HeaderRoundTrip ==
    (call.op = "Header::read_from" /\ origin.kind = "written" /\ call.pos0 = 0)
        => (outcome = "Ok" /\ value.h = origin.hdr)

C1_Witness ==
    /\ call.op = "Header::read_from"
    /\ origin.kind = "written"
    /\ outcome = "Ok"
    /\ value.h.file_type = DBase3(TRUE)
    /\ value.h.is_transaction_incomplete
    /\ value.h.num_records = U32(65535, 65535)
    /\ value.h.offset_to_first_record = 258
    /\ value.h.code_page_mark = 87

\* C2, as claimed: read_from, given a source with 32 bytes left, always
\* consumes exactly 32 bytes, and write_to always emits exactly 32 bytes,
\* whatever the header holds.
C2_AlwaysThirtyTwo ==
    /\ (call.op = "Header::read_from" /\ Len(source) - call.pos0 >= SIZE)
          => pos - call.pos0 = SIZE
    /\ call.op = "Header::write_to" => Len(Emitted) = SIZE

\* C2, amended: a read_from that succeeds has consumed exactly 32 bytes and a
\* write_to that succeeds has emitted exactly 32 bytes.
C2_ThirtyTwoOnSuccess ==
    /\ (call.op = "Header::read_from" /\ outcome = "Ok") => pos - call.pos0 = SIZE
    /\ (call.op = "Header::write_to" /\ outcome = "Ok") => Len(Emitted) = SIZE

C2_Witness ==
    /\ call.op = "Header::write_to"
    /\ outcome = "Ok"
    /\ Len(Emitted) = SIZE
    /\ origin.kind = "file"
    /\ pos = SIZE
    /\ Len(source) > SIZE

\* C3, as claimed: the bytes write_to emits for the header read_from decoded
\* from a block equal that block.
C3_WriteReadIdentity ==
    (origin.kind = "file" /\ call.op = "Header::write_to" /\ outcome = "Ok")
        => Emitted = Block

\* C3, amended: when write_to of the decoded header succeeds, the bytes it
\* emits are the block with its reserved bytes zeroed and its transaction
\* byte made 0 or 1; they equal the block exactly when the block's reserved
\* bytes are zero and its transaction byte is 0 or 1.
C3_WriteReadNormalises ==
    (origin.kind = "file" /\ call.op = "Header::write_to" /\ outcome = "Ok")
        => /\ Emitted = Normalised(Block)
           /\ (Emitted = Block) <=>
                 ((\A i \in ReservedBytes : Block[i] = 0) /\ Block[15] \in {0, 1})

C3_Witness ==
    /\ origin.kind = "file"
    /\ call.op = "Header::write_to"
    /\ outcome = "Ok"
    /\ Block[13] = 7
    /\ Block[15] = 2
    /\ Emitted[13] = 0
    /\ Emitted[15] = 1

----------------------------------------------------------------------------
(* Claims about the Date codec, checked under SpecDate *)

InClaimedRange(d) ==
    d.year \in 1900..2155 /\ d.month \in 1..12 /\ d.day \in 1..31

\* C4: write_to of a date with year in 1900..2155, month in 1..12 and day in
\* 1..31 succeeds and emits the 3 bytes year-1900, month, day, and from_bytes
\* of those bytes is the date.
C4_DateRoundTrip ==
    (call.op = "Date::write_to" /\ InClaimedRange(call.arg))
        => /\ outcome = "Ok"
           /\ Emitted = <<call.arg.year - 1900, call.arg.month, call.arg.day>>
           /\ Date_from_bytes(Emitted) = call.arg

C4_Witness ==
    /\ call.op = "Date::write_to"
    /\ call.arg = Date(2155, 12, 31)
    /\ outcome = "Ok"
    /\ call.dest0 = 3
    /\ Len(dest) = 6

\* C5: write_to of a date with month > 12, day > 31, year < 1900 or
\* year > 2155 fails with InvalidDate and emits nothing; of any other date it
\* emits exactly 3 bytes.
C5_ValidateBeforeEmit ==
    call.op = "Date::write_to" =>
        IF \/ call.arg.month > 12 \/ call.arg.day > 31
           \/ call.arg.year < 1900 \/ call.arg.year > 2155
        THEN outcome = "InvalidDate" /\ Len(dest) = call.dest0
        ELSE outcome = "Ok" /\ Len(dest) = call.dest0 + 3

C5_Witness ==
    /\ call.op = "Date::write_to"
    /\ call.arg.year = 2156
    /\ outcome = "InvalidDate"
    /\ dest = <<>>

----------------------------------------------------------------------------
(* Claims about Version, checked under SpecVersion *)

\* C6: Version::from(u8) never aborts; 0x02 gives FoxBase, 0x03 gives
\* DBase3{has_memo:false}, 0x83 gives DBase3{has_memo:true}, and any other
\* byte gives an Unknown that carries that byte: the value decoded
\* determines the byte it was decoded from.
C6_VersionDecode ==
    call.op = "Version::from" =>
        /\ outcome = "Ok"
        /\ call.arg = 2 => value.v = FoxBase
        /\ call.arg = 3 => value.v = DBase3(FALSE)
        /\ call.arg = 131 => value.v = DBase3(TRUE)
        /\ call.arg \notin {2, 3, 131} =>
              /\ value.v.tag = "Unknown"
              /\ \A b \in Byte : Version_from_u8(b) = value.v => b = call.arg

----------------------------------------------------------------------------
(* Claims about the FieldValue codec, checked under SpecField *)

\* the bytes of the source the last call was positioned at
Before(n) == SubSeq(source, call.pos0 + 1, call.pos0 + n)

\* the kinds FieldValue::read_from decodes
DecodedKinds ==
    {"Logical", "Integer", "Float", "Double", "Character", "Numeric", "Date"}

\* C7: read_from on a descriptor of a kind other than Logical, Integer,
\* Float, Double, Character, Numeric and Date returns an "unsupported field
\* kind" error to its caller: it does not crash and returns no value.
C7_UnsupportedKindIsAnError ==
    (call.op = "FieldValue::read_from" /\ call.arg.field_type \notin DecodedKinds)
        => /\ outcome # "panic"
           /\ outcome = "UnsupportedFieldKind"
           /\ value = NoValue

\* the text of a Date field is eight decimal digits, or more with eight
\* decimal digits first
EightDigits(s) == Len(s) >= 8 /\ \A i \in 1..8 : IsDigit(s[i])

\* C8: read_from for a Date field, given record_length bytes, consumes them
\* and either returns the Date of the three fixed-width decimal segments of
\* their text or, the text being malformed (shorter than 8 characters
\* included), returns a parse error.
C8_DateFieldParsesOrFails ==
    (/\ call.op = "FieldValue::read_from"
     /\ call.arg.field_type = "Date"
     /\ Len(source) - call.pos0 >= call.arg.record_length)
        => LET s == from_utf8_lossy(Before(call.arg.record_length))
           IN  /\ pos = call.pos0 + call.arg.record_length
               /\ outcome \in {"Ok", "ParseIntError"}
               /\ Len(s) < 8 => outcome = "ParseIntError"
               /\ EightDigits(s) =>
                     /\ outcome = "Ok"
                     /\ value.fv = [variant |-> "Date",
                                    val |-> Date(DigitsValue(SubSeq(s, 1, 4)),
                                                 DigitsValue(SubSeq(s, 5, 6)),
                                                 DigitsValue(SubSeq(s, 7, 8)))]

\* C9: read_from for a Logical field, given a byte, consumes exactly that
\* byte and returns Logical(true) when it is one of '1', 'T', 't', 'Y', 'y'
\* and Logical(false) when it is any other byte; it does not fail.
C9_LogicalDecode ==
    (/\ call.op = "FieldValue::read_from"
     /\ call.arg.field_type = "Logical"
     /\ Len(source) - call.pos0 >= 1)
        => /\ outcome = "Ok"
           /\ pos = call.pos0 + 1
           /\ value.fv = [variant |-> "Logical",
                          val |-> (source[call.pos0 + 1] \in {49, 84, 116, 89, 121})]

C9_Witness ==
    /\ call.op = "FieldValue::read_from"
    /\ call.arg = FieldInfo("Logical", 0)
    /\ source = <<121>>
    /\ pos = 1
    /\ value.kind = "FieldValue"
    /\ value.fv.val = TRUE

\* C10: a read_from that succeeds advances the source by the width of its
\* kind: 1 for Logical, 4 for Integer and Float, 8 for Double, whatever the
\* descriptor's record_length, and record_length for Character, Numeric and
\* Date; after decodes that all succeeded the position is the sum of their
\* widths.
C10_PositionIsSumOfWidths ==
    /\ (call.op = "FieldValue::read_from" /\ outcome = "Ok")
          => pos - call.pos0 =
                CASE call.arg.field_type = "Logical" -> 1
                  [] call.arg.field_type \in {"Integer", "Float"} -> 4
                  [] call.arg.field_type = "Double" -> 8
                  [] call.arg.field_type \in TextKinds -> call.arg.record_length
    /\ (origin = [kind |-> "record"] /\ outcome \in {"none", "Ok"})
          => pos = widthSum

C10_Witness ==
    /\ call.op = "FieldValue::read_from"
    /\ outcome = "Ok"
    /\ call.arg = FieldInfo("Numeric", 2)
    /\ call.pos0 = 13
    /\ pos = 15
    /\ widthSum = 15
    /\ Len(source) = 15

====
